---- MODULE Spec2Model ----
(***************************************************************************)
(* A model of the Merkle tree of src/main.rs: construct, verify, prove and *)
(* verify_proof over a flat, layer-concatenated vector of digests.         *)
(*                                                                         *)
(* Byte strings are sequences of numbers.  A number in 0..255 is one byte. *)
(* SHA-256 is modelled as a collision-free hash: the digest of a byte      *)
(* string s is the bracketed string <<DigestOpen>> \o s \o <<DigestClose>>,*)
(* which stands for the 32 bytes of Sha256::digest(s).  Two digests are    *)
(* equal exactly when their inputs are, and the concatenation of two       *)
(* digests splits in one way only, as 32 + 32 bytes do.                    *)
(*                                                                         *)
(* Indices are those of the code (0-based); At reads a vector at one.      *)
(***************************************************************************)
EXTENDS Integers, Sequences, FiniteSets, TLC

VARIABLES input, pc, nodes, layer, hashes, call, ret

vars == <<input, pc, nodes, layer, hashes, call, ret>>

\* Largest n of example_data(n) that is drawn as the input of construct.
MaxN == 8

\* Largest length of an input drawn over DupBlocks (repeated blocks).
MaxDupLen == 4

\* The brackets of a digest; neither is a byte.
DigestOpen == 256
DigestClose == 257

Range(s) == {s[i] : i \in 1..Len(s)}

At(v, i) == v[i + 1]

RECURSIVE Pow2(_)
Pow2(k) == IF k = 0 THEN 1 ELSE 2 * Pow2(k - 1)

HashDirection == {"Left", "Right"}

\* fn hash_data(data: &Data) -> Hash
hash_data(data) == <<DigestOpen>> \o data \o <<DigestClose>>

\* hash_concat with the chain of h2 forgotten: only h1 is hashed.
hash_concat_first_only(h1, h2) == hash_data(h1)

\* fn hash_concat(h1: &Hash, h2: &Hash) -> Hash
hash_concat(h1, h2) ==
    LET h3 == h1 \o h2
    IN  hash_data(h3)

\* fn example_data(n: usize) -> Vec<Data>: the blocks [0], [1], ..., [n-1] as u8.
example_data(n) == [i \in 1..n |-> <<(i - 1) % 256>>]

\* (input.len() as f64).log2() as usize: the cast truncates, and saturates
\* log2(0) = -inf to 0.
RECURSIVE FloorLog2(_)
FloorLog2(n) == IF n <= 1 THEN 0 ELSE 1 + FloorLog2(n \div 2)

layer_num(in) == FloorLog2(Len(in))

\* tree_root.chunks(2).map(|x| hash_concat(&x[0], &x[1])).collect()
\* on a layer of even length; ChunkPanics tells when the last chunk has one
\* element only, where x[1] is out of range.
ChunkPanics(tree_root) == Len(tree_root) % 2 = 1

\* one_layer with the two nodes of a pair combined in the wrong order.
one_layer_swapped(tree_root) ==
    [i \in 1..(Len(tree_root) \div 2) |->
        hash_concat(tree_root[2 * i], tree_root[2 * i - 1])]

one_layer(tree_root) ==
    [i \in 1..(Len(tree_root) \div 2) |->
        hash_concat(tree_root[2 * i - 1], tree_root[2 * i])]

\* The loop of construct: `remaining` iterations left, hs the layers so far.
RECURSIVE BuildLayers(_, _)
BuildLayers(hs, remaining) ==
    IF remaining = 0
    THEN [panic |-> FALSE, hashes |-> hs]
    ELSE LET tree_root == hs[Len(hs)]
         IN  IF ChunkPanics(tree_root)
             THEN [panic |-> TRUE, hashes |-> hs]
             ELSE BuildLayers(Append(hs, one_layer(tree_root)), remaining - 1)

\* hashes.into_iter().flatten().collect()
RECURSIVE Flatten(_)
Flatten(hs) == IF hs = <<>> THEN <<>> ELSE Head(hs) \o Flatten(Tail(hs))

\* construct with the leaf layer left out of the count: layer: layer_num.
construct_leaf_layer_uncounted(in) ==
    LET bottom == [i \in 1..Len(in) |-> hash_data(in[i])]
        built  == BuildLayers(<<bottom>>, layer_num(in))
    IN  [panic  |-> built.panic,
         hashes |-> built.hashes,
         nodes  |-> Flatten(built.hashes),
         layer  |-> layer_num(in)]

\* pub fn construct(input: &[Data]) -> MerkleTree
construct(in) ==
    LET bottom == [i \in 1..Len(in) |-> hash_data(in[i])]
        built  == BuildLayers(<<bottom>>, layer_num(in))
    IN  [panic  |-> built.panic,
         hashes |-> built.hashes,
         nodes  |-> Flatten(built.hashes),
         layer  |-> layer_num(in) + 1]

\* pub fn verify(&self, input: &[Data], root_hash: &Hash) -> bool
\* self.nodes.len() - 1 underflows (debug build) or indexes out of range
\* (release build) on an empty vector: a panic in both.
verify(ns, in, root_hash) ==
    IF Len(ns) = 0
    THEN [panic |-> TRUE, ok |-> FALSE]
    ELSE [panic |-> FALSE, ok |-> (At(ns, Len(ns) - 1) = root_hash)]

\* .iter().position(|leaf| *leaf == data_hash) over self.nodes[0..end]:
\* the smallest matching index, or -1 for None.
position(ns, end, data_hash) ==
    LET hits == {i \in 0..(end - 1) : At(ns, i) = data_hash}
    IN  IF hits = {} THEN -1
        ELSE CHOOSE i \in hits : \A j \in hits : i <= j

\* required_hash with the odd case forgotten: the sibling is always taken
\* on the right.
required_hash_always_right(ns, known_location) ==
    [dir |-> "Right", hash |-> At(ns, known_location + 1)]

\* The sibling pushed by one iteration of the loop of prove.
required_hash(ns, known_location) ==
    IF known_location % 2 = 0
    THEN [dir |-> "Right", hash |-> At(ns, known_location + 1)]
    ELSE [dir |-> "Left", hash |-> At(ns, known_location - 1)]

\* The index read by required_hash is out of range.
SiblingPanics(ns, known_location) ==
    IF known_location % 2 = 0
    THEN known_location + 1 >= Len(ns)
    ELSE known_location - 1 >= Len(ns)

\* parent_location with the halved distance rounded up instead of down.
parent_location_rounded_up(ns, known_location) ==
    Len(ns) - ((Len(ns) - known_location + 1) \div 2)

\* known_location = self.nodes.len() - ((self.nodes.len() - known_location) / 2)
parent_location(ns, known_location) ==
    Len(ns) - ((Len(ns) - known_location) \div 2)

\* The loop of prove: `remaining` iterations left, acc the proof so far and
\* locs the values known_location has taken.
RECURSIVE ProveLoop(_, _, _, _, _)
ProveLoop(ns, known_location, remaining, acc, locs) ==
    IF remaining = 0
    THEN [panic |-> FALSE, some |-> TRUE, hashes |-> acc, locs |-> locs]
    ELSE IF SiblingPanics(ns, known_location) \/ known_location > Len(ns)
         THEN [panic |-> TRUE, some |-> FALSE, hashes |-> acc, locs |-> locs]
         ELSE ProveLoop(ns, parent_location(ns, known_location), remaining - 1,
                        Append(acc, required_hash(ns, known_location)),
                        Append(locs, parent_location(ns, known_location)))

\* pub fn prove(&self, data: &Data) -> Option<Proof>
prove(ns, ly, data) ==
    LET data_hash == hash_data(data)
        end       == Pow2(ly - 1)
    IN  IF end > Len(ns)
        THEN [panic |-> TRUE, some |-> FALSE, hashes |-> <<>>, locs |-> <<>>]
        ELSE LET idx == position(ns, end, data_hash)
             IN  IF idx = -1
                 THEN [panic |-> FALSE, some |-> FALSE, hashes |-> <<>>,
                       locs |-> <<>>]
                 ELSE ProveLoop(ns, idx, ly - 1, <<>>, <<idx>>)

\* The loop of verify_proof over proof.hashes, from entry i on.
RECURSIVE FoldProof(_, _, _)
FoldProof(current_hash, proof, i) ==
    IF i > Len(proof)
    THEN current_hash
    ELSE FoldProof(IF proof[i].dir = "Left"
                   THEN hash_concat(proof[i].hash, current_hash)
                   ELSE hash_concat(current_hash, proof[i].hash),
                   proof, i + 1)

\* pub fn verify_proof(&self, data: &Data, proof: &Proof, root_hash: &Hash) -> bool
verify_proof(data, proof, root_hash) ==
    FoldProof(hash_data(data), proof, 1) = root_hash

-----------------------------------------------------------------------------
(* The arguments the operations are called with. *)

\* Blocks of which an input may hold several copies.
DupBlocks == {<<0>>, <<1>>}

\* A block that is in no input.
ForeignBlock == <<255>>

Inputs ==
    {example_data(n) : n \in 0..MaxN}
        \cup UNION {[1..n -> DupBlocks] : n \in 0..MaxDupLen}

\* The digests a caller may hold: those of the tree and one foreign one.
DigestPool(ns) == Range(ns) \cup {hash_data(ForeignBlock)}

\* The blocks a caller may pass: the leaves, a foreign block, and the 64 bytes
\* of two sibling digests (entries 2i and 2i+1 of the flat vector).
DataPool(in, ns) ==
    Range(in) \cup {ForeignBlock}
        \cup {ns[2 * i - 1] \o ns[2 * i] : i \in 1..(Len(ns) \div 2)}

OtherDirection(d) == IF d = "Left" THEN "Right" ELSE "Left"

\* The proofs a caller may pass: those prove returns, and each of them cut
\* short at either end, with one digest replaced, with one direction
\* flipped, or with one more entry.
GenuineProofs(in, ns, ly) ==
    {prove(ns, ly, d).hashes : d \in {x \in Range(in) : prove(ns, ly, x).some}}

ProofVariants(p, ns) ==
    {SubSeq(p, i, Len(p)) : i \in 1..(Len(p) + 1)}
        \cup {SubSeq(p, 1, i) : i \in 0..Len(p)}
        \cup {[p EXCEPT ![i].hash = h] : i \in 1..Len(p), h \in DigestPool(ns)}
        \cup {[p EXCEPT ![i].dir = OtherDirection(@)] : i \in 1..Len(p)}
        \cup {Append(p, [dir |-> d, hash |-> h]) :
                d \in HashDirection, h \in DigestPool(ns)}

ProofPool(in, ns, ly) ==
    {<<>>} \cup UNION {ProofVariants(p, ns) : p \in GenuineProofs(in, ns, ly)}

NoCall == [op |-> "none", input |-> <<>>, data |-> <<>>, proof |-> <<>>,
           root_hash |-> <<>>]

NoRet == [kind |-> "none", ok |-> FALSE, hashes |-> <<>>, locs |-> <<>>]

-----------------------------------------------------------------------------

Init ==
    /\ input \in Inputs
    /\ pc = "start"
    /\ nodes = <<>>
    /\ layer = 0
    /\ hashes = <<>>
    /\ call = NoCall
    /\ ret = NoRet

\* MerkleTree::construct(&data): the tree, or a panic inside chunks(2).
Construct ==
    /\ pc = "start"
    /\ LET t == construct(input)
       IN  /\ pc' = IF t.panic THEN "aborted" ELSE "idle"
           /\ hashes' = t.hashes
           /\ nodes' = IF t.panic THEN <<>> ELSE t.nodes
           /\ layer' = IF t.panic THEN 0 ELSE t.layer
           /\ ret' = [NoRet EXCEPT !.kind = IF t.panic THEN "abort" ELSE "tree"]
    /\ call' = [NoCall EXCEPT !.op = "construct", !.input = input]
    /\ UNCHANGED input

\* tree.verify(&input, &root_hash)
Verify ==
    /\ pc = "idle"
    /\ \E in \in {input, <<>>}, root_hash \in DigestPool(nodes) :
        LET r == verify(nodes, in, root_hash)
        IN  /\ call' = [NoCall EXCEPT !.op = "verify", !.input = in,
                                      !.root_hash = root_hash]
            /\ pc' = IF r.panic THEN "aborted" ELSE "returned"
            /\ ret' = IF r.panic THEN [NoRet EXCEPT !.kind = "abort"]
                      ELSE [NoRet EXCEPT !.kind = "bool", !.ok = r.ok]
    /\ UNCHANGED <<input, nodes, layer, hashes>>

\* tree.prove(&data)
Prove ==
    /\ pc = "idle"
    /\ \E data \in DataPool(input, nodes) :
        LET r == prove(nodes, layer, data)
        IN  /\ call' = [NoCall EXCEPT !.op = "prove", !.data = data]
            /\ pc' = IF r.panic THEN "aborted" ELSE "returned"
            /\ ret' = IF r.panic THEN [NoRet EXCEPT !.kind = "abort"]
                      ELSE IF r.some
                           THEN [NoRet EXCEPT !.kind = "some",
                                              !.hashes = r.hashes,
                                              !.locs = r.locs]
                           ELSE [NoRet EXCEPT !.kind = "absent"]
    /\ UNCHANGED <<input, nodes, layer, hashes>>

\* tree.verify_proof(&data, &proof, &root_hash)
VerifyProof ==
    /\ pc = "idle"
    /\ \E data \in DataPool(input, nodes),
          proof \in ProofPool(input, nodes, layer),
          root_hash \in DigestPool(nodes) :
        /\ call' = [NoCall EXCEPT !.op = "verify_proof", !.data = data,
                                  !.proof = proof, !.root_hash = root_hash]
        /\ ret' = [NoRet EXCEPT !.kind = "bool",
                                !.ok = verify_proof(data, proof, root_hash)]
    /\ pc' = "returned"
    /\ UNCHANGED <<input, nodes, layer, hashes>>

\* The caller takes the result; the tree is ready for the next call.
Return ==
    /\ pc = "returned"
    /\ pc' = "idle"
    /\ call' = NoCall
    /\ ret' = NoRet
    /\ UNCHANGED <<input, nodes, layer, hashes>>

Next == Construct \/ Verify \/ Prove \/ VerifyProof \/ Return

Spec == Init /\ [][Next]_vars

-----------------------------------------------------------------------------
(* What the claims speak of. *)

\* n = 2^k for some k >= 0.
IsPowerOfTwo(n) == \E k \in 0..n : Pow2(k) = n

\* A tree that construct returned for an input of 2^k blocks.
BuiltFromPowerOfTwo == pc \in {"idle", "returned"} /\ IsPowerOfTwo(Len(input))

\* The last entry of nodes.
Root == nodes[Len(nodes)]

\* The k of N = 2^k leaves.
LogOf(n) == CHOOSE k \in 0..n : Pow2(k) = n

\* The flat index at which layer j of a tree of n leaves starts.
LayerOffset(n, j) == 2 * (n - n \div Pow2(j))

\* q is p with the digest of exactly one entry replaced by another digest.
OneDigestReplaced(q, p) ==
    /\ Len(q) = Len(p)
    /\ \E i \in 1..Len(p) :
        /\ q[i].hash # p[i].hash
        /\ q[i].dir = p[i].dir
        /\ \A j \in 1..Len(p) : j # i => q[j] = p[j]

\* C1: for a tree built from 2^k blocks (duplicates included) and a block d
\* of the input, prove(d) returns a proof, and verify_proof(d, that proof,
\* last entry of nodes) returns true.
C1_RoundTrip ==
    BuiltFromPowerOfTwo =>
        /\ (call.op = "prove" /\ call.data \in Range(input))
              => ret.kind = "some"
        /\ (/\ call.op = "verify_proof"
            /\ call.data \in Range(input)
            /\ call.proof = prove(nodes, layer, call.data).hashes
            /\ call.root_hash = Root)
              => (ret.kind = "bool" /\ ret.ok)

\* The run of main: 8 blocks, the proof of [2] verified against the root.
C1_Witness ==
    /\ pc = "returned"
    /\ input = example_data(8)
    /\ call.op = "verify_proof"
    /\ call.data = <<2>>
    /\ call.proof = prove(nodes, layer, <<2>>).hashes
    /\ Len(call.proof) = 3
    /\ call.root_hash = Root
    /\ ret.ok

\* C2: construct on zero blocks, or on a number of blocks that is no power
\* of two, returns an explicit construction error, never a tree.
C2_ExplicitConstructionError ==
    (call.op = "construct" /\ ~IsPowerOfTwo(Len(input)))
        => ret.kind = "error"

\* C3: no call of construct, verify, prove or verify_proof aborts the
\* process, whatever the input.
C3_NoAbort == pc # "aborted"

\* C4: with a collision-free hash, for d in the input of a tree built from
\* 2^k blocks and p = prove(d), verify_proof returns false when d is
\* replaced by another block, when the digest of one entry of p is replaced
\* by another digest, and when the root is replaced by another digest.
C4_TamperSensitivity ==
    (BuiltFromPowerOfTwo /\ call.op = "verify_proof") =>
        \A d \in Range(input) :
            LET p == prove(nodes, layer, d).hashes
            IN  /\ (/\ call.data # d
                    /\ call.proof = p
                    /\ call.root_hash = Root) => ~ret.ok
                /\ (/\ call.data = d
                    /\ OneDigestReplaced(call.proof, p)
                    /\ call.root_hash = Root) => ~ret.ok
                /\ (/\ call.data = d
                    /\ call.proof = p
                    /\ call.root_hash # Root) => ~ret.ok

\* A proof of [2] among 8 blocks with one digest replaced is refused.
C4_Witness ==
    /\ pc = "returned"
    /\ input = example_data(8)
    /\ call.op = "verify_proof"
    /\ call.data = <<2>>
    /\ OneDigestReplaced(call.proof, prove(nodes, layer, <<2>>).hashes)
    /\ call.root_hash = Root
    /\ ret.kind = "bool"
    /\ ~ret.ok

\* C5: a tree built from N = 2^k blocks has 2N - 1 nodes and layer = k + 1,
\* and each layer is half as long as the layer below it.
C5_LayerArithmetic ==
    BuiltFromPowerOfTwo =>
        LET N == Len(input)
            k == LogOf(N)
        IN  /\ Len(nodes) = 2 * N - 1
            /\ layer = k + 1
            /\ Len(hashes) = k + 1
            /\ Len(hashes[1]) = N
            /\ \A j \in 2..Len(hashes) :
                  2 * Len(hashes[j]) = Len(hashes[j - 1])

\* A tree of 8 leaves: 15 nodes in 4 layers.
C5_Witness ==
    /\ pc = "idle"
    /\ call.op = "construct"
    /\ Len(input) = 8
    /\ Len(nodes) = 15
    /\ layer = 4

\* C6: prove returns None, without aborting, exactly when the leaf hash of
\* the data is none of the first leafCount entries of nodes; it returns None
\* for a block that is not in the input and Some for a block that is.
C6_Absence ==
    call.op = "prove" =>
        /\ pc # "aborted"
        /\ ret.kind = "absent"
              <=> \A i \in 1..Len(nodes) :
                      i <= Pow2(layer - 1) => nodes[i] # hash_data(call.data)
        /\ call.data \notin Range(input) => ret.kind = "absent"
        /\ call.data \in Range(input) => ret.kind = "some"

\* C7: verify_proof, given a proof whose length is not layer - 1, reports a
\* structural failure, which is neither true nor false.
C7_MalformedProofRejected ==
    (call.op = "verify_proof" /\ Len(call.proof) # layer - 1)
        => ret.kind = "error"

\* C8: nodes is the layers bottom to top: the N leaf digests in input order,
\* then each higher layer, whose entry i is hash_concat of entries 2i and
\* 2i + 1 of the layer below; the last entry is the root.
C8_ConstructionLayout ==
    BuiltFromPowerOfTwo =>
        LET N == Len(input)
            k == LogOf(N)
        IN  /\ \A i \in 0..(N - 1) : At(nodes, i) = hash_data(At(input, i))
            /\ \A j \in 1..k : \A i \in 0..(N \div Pow2(j) - 1) :
                  At(nodes, LayerOffset(N, j) + i)
                      = hash_concat(
                          At(nodes, LayerOffset(N, j - 1) + 2 * i),
                          At(nodes, LayerOffset(N, j - 1) + 2 * i + 1))
            /\ LayerOffset(N, k) = Len(nodes) - 1
            /\ N = 4 =>
                  Root = hash_data(
                      hash_data(hash_data(input[1]) \o hash_data(input[2]))
                          \o hash_data(hash_data(input[3])
                                         \o hash_data(input[4])))

\* The tree of the 4 blocks [0], [1], [2], [3] of test_constructions.
C8_Witness ==
    /\ pc = "idle"
    /\ call.op = "construct"
    /\ input = example_data(4)
    /\ Len(nodes) = 7
    /\ Root = hash_concat(hash_concat(nodes[1], nodes[2]),
                          hash_concat(nodes[3], nodes[4]))

\* C9: for a tree of N = 2^k leaves and data whose leaf hash is first held
\* by leaf p, prove returns k entries; entry j is the digest of the sibling,
\* within layer j, of the ancestor floor(p / 2^j) of p, tagged Right when
\* that ancestor's index is even and Left when it is odd; known_location is
\* the flat index of that ancestor and is updated to that of its parent.
C9_ProofShape ==
    (BuiltFromPowerOfTwo /\ call.op = "prove" /\ ret.kind = "some") =>
        LET N == Len(input)
            k == LogOf(N)
            held == {i \in 0..(N - 1) : At(nodes, i) = hash_data(call.data)}
            p == CHOOSE i \in held : \A i2 \in held : i <= i2
        IN  /\ held # {}
            /\ Len(ret.hashes) = k
            /\ Len(ret.locs) = k + 1
            /\ \A j \in 0..(k - 1) :
                  LET a == p \div Pow2(j)
                      sibling == IF a % 2 = 0 THEN a + 1 ELSE a - 1
                  IN  /\ At(ret.hashes, j).hash
                            = At(nodes, LayerOffset(N, j) + sibling)
                      /\ At(ret.hashes, j).dir
                            = IF a % 2 = 0 THEN "Right" ELSE "Left"
                      /\ At(ret.locs, j) = LayerOffset(N, j) + a
                      /\ At(ret.locs, j + 1)
                            = LayerOffset(N, j + 1) + a \div 2

\* The proof of a block held twice, by leaves 1 and 3 of 4: that of leaf 1.
C9_Witness ==
    /\ pc = "returned"
    /\ call.op = "prove"
    /\ input = <<<<0>>, <<1>>, <<0>>, <<1>>>>
    /\ call.data = <<1>>
    /\ ret.kind = "some"
    /\ ret.locs = <<1, 4, 6>>
    /\ ret.hashes[1] = [dir |-> "Left", hash |-> nodes[1]]

\* C10: with a collision-free hash, for a tree built from 2^k blocks, any
\* data and any proof: if verify_proof(data, proof, root of the tree)
\* returns true, the data is one of the blocks of the input.
C10_InclusionSoundness ==
    (/\ BuiltFromPowerOfTwo
     /\ call.op = "verify_proof"
     /\ call.root_hash = Root
     /\ ret.ok)
        => call.data \in Range(input)

====
